---- MODULE Spec2Model ----
(***************************************************************************)
(* Model of trax/rl/advantages.py: the three advantage estimators          *)
(* monte_carlo, td_k and td_lambda over [batch_size, length] arrays.       *)
(*                                                                         *)
(* Numbers are exact rationals <<numerator, denominator>> in lowest terms  *)
(* with a positive denominator.  The inputs drawn in Init are small         *)
(* integers and halves, on which every float operation of the code is      *)
(* exact, so the rational result is the float result.  The arrays are      *)
(* floating-point arrays, as the docstrings' tensors are.                  *)
(*                                                                         *)
(* Arrays are sequences of rows; a row is a sequence of numbers.  Columns  *)
(* are numbered from 0 in the code and from 1 in a TLA+ sequence: column c *)
(* of the code is element c + 1 of the row.                                *)
(***************************************************************************)
EXTENDS Integers, Sequences, FiniteSets, TLC

VARIABLES
    mem,            \* the arrays in memory: the caller's three and the call's own
    pc,             \* position of the running call
    fn,             \* the estimator being called
    gamma,          \* argument gamma
    n_extra_steps,  \* argument n_extra_steps
    lambda_,        \* argument lambda_ (td_lambda)
    k,              \* td_k's local k
    i,              \* number of loop iterations completed
    discount,       \* td_k's local discount
    advantages,     \* td_k's local advantages: a reference into mem
    td_returns,     \* td_lambda's local td_returns: a reference into mem
    result,         \* the returned array: a reference into mem
    outcome,        \* how the call ended
    writes          \* columns assigned by td_lambda, in order (history)

vars == <<mem, pc, fn, gamma, n_extra_steps, lambda_, k, i, discount,
          advantages, td_returns, result, outcome, writes>>

\* Largest number of elements (batch_size * length) of an input array.
MaxCells == 3

(***************************************************************************)
(* Arithmetic                                                              *)
(***************************************************************************)
Abs(x) == IF x < 0 THEN -x ELSE x

Max(x, y) == IF x >= y THEN x ELSE y

Min(x, y) == IF x <= y THEN x ELSE y

RECURSIVE Gcd(_, _)
Gcd(a, b) == IF b = 0 THEN a ELSE Gcd(b, a % b)

Rat(n, d) ==
    LET g == Gcd(Abs(n), Abs(d))
        s == IF d < 0 THEN -1 ELSE 1
    IN  <<(s * n) \div g, (s * d) \div g>>

Zero == Rat(0, 1)

One == Rat(1, 1)

RAdd(x, y) == Rat(x[1] * y[2] + y[1] * x[2], x[2] * y[2])

RSub(x, y) == Rat(x[1] * y[2] - y[1] * x[2], x[2] * y[2])

RMul(x, y) == Rat(x[1] * y[1], x[2] * y[2])

\* gamma ** k for an integer k >= 0
RECURSIVE RPow(_, _)
RPow(x, e) == IF e <= 0 THEN One ELSE RMul(x, RPow(x, e - 1))

(***************************************************************************)
(* Arrays, slices and elementwise operations (numpy)                       *)
(***************************************************************************)
NRows(a) == Len(a)

NCols(a) == IF Len(a) = 0 THEN 0 ELSE Len(a[1])

Shape(a) == <<NRows(a), NCols(a)>>

\* A slice bound x on an axis of size len: negative counts from the end,
\* and the bound is clamped to the axis.
PyBound(x, len) == IF x < 0 THEN Max(x + len, 0) ELSE Min(x, len)

\* a[:, start:stop]
Slice(a, start, stop) ==
    LET lo == PyBound(start, NCols(a))
        hi == PyBound(stop, NCols(a))
    IN  [r \in 1..NRows(a) |-> [j \in 1..Max(hi - lo, 0) |-> a[r][lo + j]]]

\* a[:, start:]
SliceFrom(a, start) == Slice(a, start, NCols(a))

\* a[:, :stop]
SliceTo(a, stop) == Slice(a, 0, stop)

\* numpy broadcasting of two arrays with the same number of rows
Compatible(a, b) == NCols(a) = NCols(b) \/ NCols(a) = 1 \/ NCols(b) = 1

BCols(a, b) == IF NCols(a) = 1 THEN NCols(b) ELSE IF NCols(b) = 1 THEN NCols(a) ELSE NCols(a)

At(a, r, j) == IF NCols(a) = 1 THEN a[r][1] ELSE a[r][j]

\* a + b
Add(a, b) ==
    [r \in 1..NRows(a) |-> [j \in 1..BCols(a, b) |-> RAdd(At(a, r, j), At(b, r, j))]]

\* a - b
Sub(a, b) ==
    [r \in 1..NRows(a) |-> [j \in 1..BCols(a, b) |-> RSub(At(a, r, j), At(b, r, j))]]

\* c * a for a scalar c
Scale(c, a) == [r \in 1..NRows(a) |-> [j \in 1..NCols(a) |-> RMul(c, a[r][j])]]

ZerosLike(a) == [r \in 1..NRows(a) |-> [j \in 1..NCols(a) |-> Zero]]

\* range(n) as the sequence of values the loop variable takes
Range(n) == [j \in 1..Max(n, 0) |-> j - 1]

Reversed(s) == [j \in 1..Len(s) |-> s[Len(s) + 1 - j]]

(***************************************************************************)
(* Memory: the caller's arrays and the arrays a call allocates             *)
(***************************************************************************)
InputIds == {"rewards", "returns", "values"}

ObjIds == InputIds \cup {"new", "tmp"}

\* An object that is not allocated.
Free == <<>>

\* No reference (an unbound local).
NoRef == [obj |-> "none", lo |-> 0, hi |-> 0]

\* A reference to columns [lo, hi) of an object: a numpy array or basic-slice view.
View(obj, lo, hi) == [obj |-> obj, lo |-> lo, hi |-> hi]

Whole(m, obj) == View(obj, 0, NCols(m[obj]))

Deref(m, ref) == Slice(m[ref.obj], ref.lo, ref.hi)

\* ref[:, :] = a, written through to the object ref refers to
StoreAll(m, ref, a) ==
    [m EXCEPT ![ref.obj] =
        [r \in 1..NRows(@) |-> [j \in 1..NCols(@) |->
            IF j > ref.lo /\ j <= ref.hi THEN a[r][j - ref.lo] ELSE @[r][j]]]]

\* ref[:, c] = col, for a column c >= 0 of the view
StoreCol(m, ref, c, col) ==
    [m EXCEPT ![ref.obj] =
        [r \in 1..NRows(@) |-> [j \in 1..NCols(@) |->
            IF j = ref.lo + c + 1 THEN col[r] ELSE @[r][j]]]]

rewards == mem["rewards"]

returns == mem["returns"]

values == mem["values"]

\* (_, length) = returns.shape
length == NCols(returns)

(***************************************************************************)
(* Inputs                                                                  *)
(***************************************************************************)
Elems == {Rat(1, 1), Rat(2, 1)}

Gammas == {Rat(1, 2), Rat(1, 1)}

Lambdas == {Rat(0, 1), Rat(1, 2), Rat(1, 1)}

BatchSizes == 1..2

\* <<batch_size, length>>: a trajectory has at least one step.
Shapes == {s \in BatchSizes \X (1..MaxCells) : s[1] * s[2] <= MaxCells}

Arrays(b, l) == [1..b -> [1..l -> Elems]]

\* Returns computed upstream as the discounted sum of rewards, bootstrapped
\* with the last value.
RECURSIVE DiscountedRow(_, _, _, _)
DiscountedRow(rw, vl, g, t) ==
    IF t >= Len(rw) THEN vl[Len(vl)]
    ELSE RAdd(rw[t], RMul(g, DiscountedRow(rw, vl, g, t + 1)))

DiscountedReturns(rw, vl, g) ==
    [r \in 1..NRows(rw) |-> [t \in 1..NCols(rw) |-> DiscountedRow(rw[r], vl[r], g, t)]]

ExtraSteps(l) == 0..(l + 1)

TdKExtraSteps(l) == (-1)..(l + 1)

\* An array with every element c.
Const(b, l, c) == [r \in 1..b |-> [j \in 1..l |-> c]]

\* The input triples <<rewards, returns, values>> of one shape.  td_k and
\* td_lambda read the elements of rewards and values and only the shape of
\* returns: they get every pair of rewards and values, with returns as
\* computed upstream.  monte_carlo reads the elements of returns and values
\* only: it gets every pair of returns and values.
Inputs(b, l) ==
    {<<rw, DiscountedReturns(rw, vl, g), vl>> :
        rw \in Arrays(b, l), vl \in Arrays(b, l), g \in Gammas}
    \cup
    {<<Const(b, l, c), rt, vl>> : c \in Elems, rt \in Arrays(b, l), vl \in Arrays(b, l)}

Init ==
    /\ \E s \in Shapes :
         \E inp \in Inputs(s[1], s[2]) :
             mem = [o \in ObjIds |->
                      CASE o = "rewards" -> inp[1]
                        [] o = "returns" -> inp[2]
                        [] o = "values" -> inp[3]
                        [] OTHER -> Free]
    /\ pc = "idle"
    /\ fn = "none"
    /\ gamma = Zero
    /\ n_extra_steps = 0
    /\ lambda_ = Zero
    /\ k = 0
    /\ i = 0
    /\ discount = Zero
    /\ advantages = NoRef
    /\ td_returns = NoRef
    /\ result = NoRef
    /\ outcome = "none"
    /\ writes = <<>>

(***************************************************************************)
(* monte_carlo                                                             *)
(***************************************************************************)
\* Variant: the slice keeps one column more.
ReturnStopOffByOne(len, n) == len - n + 1

\* the stop of the returned slice: length - n_extra_steps
ReturnStop(len, n) == len - n

\* Variant: the operands exchanged.
MonteCarloDiffSwapped(rt, vl) == Sub(vl, rt)

\* returns - values
MonteCarloDiff(rt, vl) == Sub(rt, vl)

monte_carlo(rw, rt, vl, g, n) == SliceTo(MonteCarloDiff(rt, vl), ReturnStop(NCols(rt), n))

MonteCarlo(g, n) ==
    /\ pc = "idle"
    /\ fn' = "monte_carlo"
    /\ gamma' = g
    /\ n_extra_steps' = n
    /\ mem' = [mem EXCEPT !["tmp"] = MonteCarloDiff(returns, values)]
    /\ result' = View("tmp", 0, PyBound(ReturnStop(length, n), NCols(mem'["tmp"])))
    /\ outcome' = "returned"
    /\ pc' = "done"
    /\ UNCHANGED <<lambda_, k, i, discount, advantages, td_returns, writes>>

(***************************************************************************)
(* td_k                                                                    *)
(***************************************************************************)
\* Variant: the assertion admits k = 0.
AssertHoldsNonNegative(kk) == kk >= 0

\* assert k > 0
AssertHolds(kk) == kk > 0

\* (gamma ** k) * values[:, k:]
TdKBootstrap(vl, g, kk) == Scale(RPow(g, kk), SliceFrom(vl, kk))

\* values[:, :-k]
TdKBaseline(vl, kk) == SliceTo(vl, -kk)

\* Variant: the rewards of iteration i weighted by gamma ** (i + 1).
TdKRewardWeightDiscounted(g, d) == RMul(g, d)

\* the weight of the rewards added in one iteration
TdKRewardWeight(g, d) == g

\* gamma * rewards[:, i:-(n_extra_steps - i)]
TdKRewardTerm(rw, g, d, n, ii) == Scale(TdKRewardWeight(g, d), Slice(rw, ii, -(n - ii)))

\* advantages += gamma * rewards[:, i:-(n_extra_steps - i)]
TdKStep(adv, rw, g, d, n, ii) == Add(adv, TdKRewardTerm(rw, g, d, n, ii))

\* the loop from its iteration number j on, with discount d
RECURSIVE TdKIterate(_, _, _, _, _, _)
TdKIterate(adv, rw, g, d, n, j) ==
    IF j >= Len(Range(n)) THEN adv
    ELSE TdKIterate(TdKStep(adv, rw, g, d, n, Range(n)[j + 1]), rw, g, RMul(d, g), n, j + 1)

\* the array td_k returns when its assertion holds
td_k(rw, rt, vl, g, n) ==
    TdKIterate(Sub(TdKBootstrap(vl, g, n), TdKBaseline(vl, n)), rw, g, One, n, 0)

TdKCall(g, n) ==
    /\ pc = "idle"
    /\ fn' = "td_k"
    /\ gamma' = g
    /\ n_extra_steps' = n
    /\ k' = n
    /\ IF AssertHolds(n)
         THEN /\ pc' = "tdk_base"
              /\ outcome' = outcome
         ELSE /\ pc' = "done"
              /\ outcome' = "AssertionError"
    /\ UNCHANGED <<mem, lambda_, i, discount, advantages, td_returns, result, writes>>

TdKBase ==
    /\ pc = "tdk_base"
    /\ LET a == TdKBootstrap(values, gamma, k)
           b == TdKBaseline(values, k)
       IN  IF Compatible(a, b)
             THEN /\ mem' = [mem EXCEPT !["new"] = Sub(a, b)]
                  /\ advantages' = Whole(mem', "new")
                  /\ discount' = One
                  /\ i' = 0
                  /\ pc' = "tdk_loop"
                  /\ outcome' = outcome
             ELSE /\ pc' = "done"
                  /\ outcome' = "ValueError"
                  /\ UNCHANGED <<mem, advantages, discount, i>>
    /\ UNCHANGED <<fn, gamma, n_extra_steps, lambda_, k, td_returns, result, writes>>

TdKLoop ==
    /\ pc = "tdk_loop"
    /\ i < Len(Range(n_extra_steps))
    /\ LET ii == Range(n_extra_steps)[i + 1]
           cur == Deref(mem, advantages)
           term == TdKRewardTerm(rewards, gamma, discount, n_extra_steps, ii)
       IN  IF NCols(term) = NCols(cur) \/ NCols(term) = 1
             THEN /\ mem' = StoreAll(mem, advantages,
                                      TdKStep(cur, rewards, gamma, discount, n_extra_steps, ii))
                  /\ discount' = RMul(discount, gamma)
                  /\ i' = i + 1
                  /\ UNCHANGED <<pc, outcome>>
             ELSE /\ pc' = "done"
                  /\ outcome' = "ValueError"
                  /\ UNCHANGED <<mem, discount, i>>
    /\ UNCHANGED <<fn, gamma, n_extra_steps, lambda_, k, advantages, td_returns, result, writes>>

TdKReturn ==
    /\ pc = "tdk_loop"
    /\ i >= Len(Range(n_extra_steps))
    /\ result' = advantages
    /\ outcome' = "returned"
    /\ pc' = "done"
    /\ UNCHANGED <<mem, fn, gamma, n_extra_steps, lambda_, k, i, discount, advantages,
                   td_returns, writes>>

(***************************************************************************)
(* td_lambda                                                               *)
(***************************************************************************)
\* Variant: td_returns bound to the caller's array, td_returns = returns.
TdReturnsAlias(m) == [ref |-> View("returns", 0, NCols(m["returns"])), mem |-> m]

\* td_returns = np.zeros_like(returns): a new array
TdReturnsAlloc(m) ==
    [ref |-> View("new", 0, NCols(m["returns"])),
     mem |-> [m EXCEPT !["new"] = ZerosLike(m["returns"])]]

\* Variant: the scan runs forward, range(length - 1).
TdLambdaRangeForward(len) == Range(len - 1)

\* reversed(range(length - 1))
TdLambdaRange(len) == Reversed(Range(len - 1))

\* Variant: the weights lambda_ and 1 - lambda_ exchanged.
TdLambdaTargetSwapped(r, v, td, g, lam) ==
    RAdd(r, RMul(g, RAdd(RMul(lam, v), RMul(RSub(One, lam), td))))

\* Variant: the next step not discounted by gamma.
TdLambdaTargetUndiscounted(r, v, td, g, lam) ==
    RAdd(r, RAdd(RMul(RSub(One, lam), v), RMul(lam, td)))

\* rewards[:, i] + gamma * ((1 - lambda_) * values[:, i + 1] + lambda_ * td_returns[:, i + 1])
TdLambdaTarget(r, v, td, g, lam) ==
    RAdd(r, RMul(g, RAdd(RMul(RSub(One, lam), v), RMul(lam, td))))

TdLambdaCall(g, n, lam) ==
    /\ pc = "idle"
    /\ fn' = "td_lambda"
    /\ gamma' = g
    /\ n_extra_steps' = n
    /\ lambda_' = lam
    /\ td_returns' = TdReturnsAlloc(mem).ref
    /\ mem' = TdReturnsAlloc(mem).mem
    /\ pc' = "tdl_last"
    /\ UNCHANGED <<k, i, discount, advantages, result, outcome, writes>>

\* Variant: the last column left at zero.
TdLambdaLastValuesZero(vl) == [r \in 1..NRows(vl) |-> Zero]

\* values[:, -1]
TdLambdaLastValues(vl) == [r \in 1..NRows(vl) |-> vl[r][NCols(vl)]]

\* td_returns[:, -1] = values[:, -1]
TdLambdaLast ==
    /\ pc = "tdl_last"
    /\ IF NCols(values) = 0 \/ td_returns.hi - td_returns.lo = 0
         THEN /\ pc' = "done"
              /\ outcome' = "IndexError"
              /\ UNCHANGED <<mem, i, writes>>
         ELSE LET c == (td_returns.hi - td_returns.lo) - 1
              IN  /\ mem' = StoreCol(mem, td_returns, c, TdLambdaLastValues(values))
                  /\ writes' = Append(writes, c)
                  /\ i' = 0
                  /\ pc' = "tdl_loop"
                  /\ outcome' = outcome
    /\ UNCHANGED <<fn, gamma, n_extra_steps, lambda_, k, discount, advantages, td_returns,
                   result>>

TdLambdaStep ==
    /\ pc = "tdl_loop"
    /\ i < Len(TdLambdaRange(length))
    /\ LET t == TdLambdaRange(length)[i + 1]
           td == Deref(mem, td_returns)
       IN  /\ mem' = StoreCol(mem, td_returns, t,
                  [r \in 1..NRows(td) |->
                      TdLambdaTarget(rewards[r][t + 1], values[r][t + 2], td[r][t + 2],
                                     gamma, lambda_)])
           /\ writes' = Append(writes, t)
    /\ i' = i + 1
    /\ UNCHANGED <<pc, fn, gamma, n_extra_steps, lambda_, k, discount, advantages,
                   td_returns, result, outcome>>

\* return (td_returns - values)[:, :(returns.shape[1] - n_extra_steps)]
TdLambdaReturn ==
    /\ pc = "tdl_loop"
    /\ i >= Len(TdLambdaRange(length))
    /\ mem' = [mem EXCEPT !["tmp"] = Sub(Deref(mem, td_returns), values)]
    /\ result' = View("tmp", 0, PyBound(ReturnStop(NCols(returns), n_extra_steps),
                                        NCols(mem'["tmp"])))
    /\ outcome' = "returned"
    /\ pc' = "done"
    /\ UNCHANGED <<fn, gamma, n_extra_steps, lambda_, k, i, discount, advantages,
                   td_returns, writes>>

(***************************************************************************)
(* The caller takes the outcome; the call's locals are gone.               *)
(***************************************************************************)
Finish ==
    /\ pc = "done"
    /\ pc' = "idle"
    /\ fn' = "none"
    /\ mem' = [mem EXCEPT !["new"] = Free, !["tmp"] = Free]
    /\ gamma' = Zero
    /\ n_extra_steps' = 0
    /\ lambda_' = Zero
    /\ k' = 0
    /\ i' = 0
    /\ discount' = Zero
    /\ advantages' = NoRef
    /\ td_returns' = NoRef
    /\ result' = NoRef
    /\ outcome' = "none"
    /\ writes' = <<>>

Next ==
    \/ \E g \in Gammas, n \in ExtraSteps(length) : MonteCarlo(g, n)
    \/ \E g \in Gammas, n \in TdKExtraSteps(length) : TdKCall(g, n)
    \/ TdKBase
    \/ TdKLoop
    \/ TdKReturn
    \/ \E g \in Gammas, n \in ExtraSteps(length), lam \in Lambdas : TdLambdaCall(g, n, lam)
    \/ TdLambdaLast
    \/ TdLambdaStep
    \/ TdLambdaReturn
    \/ Finish

Spec == Init /\ [][Next]_vars

(***************************************************************************)
(* Properties                                                              *)
(***************************************************************************)
Returned(f) == pc = "done" /\ fn = f /\ outcome = "returned"

\* the returned array
Res == Deref(mem, result)

batch_size == NRows(returns)

Half == Rat(1, 2)

\* row[t] + ... + row[t + j - 1], columns numbered from 0
RECURSIVE RewardSum(_, _, _)
RewardSum(row, t, j) ==
    IF j <= 0 THEN Zero ELSE RAdd(RewardSum(row, t, j - 1), row[t + j])

\* w * (row[t] + g * row[t + 1] + ... + g^(j-1) * row[t + j - 1]), columns from 0
RECURSIVE DiscountedSum(_, _, _, _, _)
DiscountedSum(row, t, j, g, w) ==
    IF j <= 0 THEN Zero
    ELSE RAdd(DiscountedSum(row, t, j - 1, g, w), RMul(RMul(w, RPow(g, j - 1)), row[t + j]))

\* the TD-lambda return of row b at column t (numbered from 1), by the recurrence
RECURSIVE TdRet(_, _)
TdRet(b, t) ==
    IF t >= length THEN values[b][length]
    ELSE RAdd(rewards[b][t],
              RMul(gamma, RAdd(RMul(RSub(One, lambda_), values[b][t + 1]),
                               RMul(lambda_, TdRet(b, t + 1)))))

\* C1 (as amended): for valid inputs, where monte_carlo also needs
\* n_extra_steps <= length, each estimator returns, and returns an array of
\* shape (batch_size, length - n_extra_steps).
ShapeLaw ==
    /\ (pc = "done" /\ fn = "monte_carlo" /\ n_extra_steps <= length)
          => (outcome = "returned" /\ Shape(Res) = <<batch_size, length - n_extra_steps>>)
    /\ (pc = "done" /\ fn = "td_k" /\ n_extra_steps >= 1 /\ length > n_extra_steps)
          => (outcome = "returned" /\ Shape(Res) = <<batch_size, length - n_extra_steps>>)
    /\ (pc = "done" /\ fn = "td_lambda" /\ length > n_extra_steps)
          => (outcome = "returned" /\ Shape(Res) = <<batch_size, length - n_extra_steps>>)

\* C1 as stated: monte_carlo with any n_extra_steps >= 0.
ShapeLawAsStated ==
    /\ (pc = "done" /\ fn = "monte_carlo")
          => (outcome = "returned" /\ Shape(Res) = <<batch_size, length - n_extra_steps>>)
    /\ (pc = "done" /\ fn = "td_k" /\ n_extra_steps >= 1 /\ length > n_extra_steps)
          => (outcome = "returned" /\ Shape(Res) = <<batch_size, length - n_extra_steps>>)
    /\ (pc = "done" /\ fn = "td_lambda" /\ length > n_extra_steps)
          => (outcome = "returned" /\ Shape(Res) = <<batch_size, length - n_extra_steps>>)

ShapeLawWitness ==
    /\ Returned("td_lambda")
    /\ batch_size = 2
    /\ n_extra_steps = 0
    /\ Shape(Res) = <<2, 1>>

\* C2 (as amended): for 0 <= n_extra_steps <= length, monte_carlo returns exactly
\* the steps t in [0, length - n_extra_steps), each returns[b,t] - values[b,t],
\* whatever rewards and gamma are.
MonteCarloLaw ==
    (Returned("monte_carlo") /\ n_extra_steps <= length) =>
        /\ Shape(Res) = <<batch_size, length - n_extra_steps>>
        /\ \A b \in 1..batch_size : \A t \in 1..(length - n_extra_steps) :
              Res[b][t] = RSub(returns[b][t], values[b][t])

\* C2 as stated: for every n_extra_steps >= 0, also n_extra_steps > length, where
\* [0, length - n_extra_steps) is empty.
MonteCarloLawAsStated ==
    Returned("monte_carlo") =>
        /\ Shape(Res) = <<batch_size, Max(length - n_extra_steps, 0)>>
        /\ \A b \in 1..batch_size : \A t \in 1..NCols(Res) :
              Res[b][t] = RSub(returns[b][t], values[b][t])

MonteCarloWitness ==
    /\ Returned("monte_carlo")
    /\ length = 3
    /\ n_extra_steps = 1
    /\ gamma = Half
    /\ NCols(Res) = 2
    /\ Res[1][1] # Res[1][2]

\* C3: td_k called with n_extra_steps < 1 ends in the assertion failure before
\* any advantage is computed, and returns nothing.
TdKPrecondition ==
    (fn = "td_k" /\ n_extra_steps < 1) =>
        /\ pc = "done"
        /\ outcome = "AssertionError"
        /\ advantages = NoRef
        /\ result = NoRef
        /\ mem["new"] = Free
        /\ mem["tmp"] = Free

TdKPreconditionWitness ==
    /\ fn = "td_k"
    /\ n_extra_steps = 0
    /\ length = 3
    /\ outcome = "AssertionError"

TdKDiscountedByPowers ==
    (Returned("td_k") /\ k >= 1 /\ length > k) =>
        \E w \in {One, gamma} :
            \A b \in 1..batch_size : \A t \in 0..(length - k - 1) :
                Res[b][t + 1] =
                    RAdd(RSub(RMul(RPow(gamma, k), values[b][t + k + 1]), values[b][t + 1]),
                         DiscountedSum(rewards[b], t, k, gamma, w))

\* C6: for 0 <= n_extra_steps < length, td_lambda returns td_returns - values on
\* [0, length - n_extra_steps), td_returns being given by the backward recurrence.
TdLambdaLaw ==
    (Returned("td_lambda") /\ n_extra_steps < length) =>
        /\ Shape(Res) = <<batch_size, length - n_extra_steps>>
        /\ \A b \in 1..batch_size : \A t \in 1..(length - n_extra_steps) :
              Res[b][t] = RSub(TdRet(b, t), values[b][t])

TdLambdaLawWitness ==
    /\ Returned("td_lambda")
    /\ length = 3
    /\ n_extra_steps = 1
    /\ lambda_ = Half
    /\ gamma = Half

\* C7 (as amended): with lambda_ = 0 and 0 <= n_extra_steps < length, the
\* advantage at every retained step t < length - 1 is the one-step residual
\* rewards[b,t] + gamma * values[b,t+1] - values[b,t]; the step t = length - 1,
\* retained only when n_extra_steps = 0, has advantage 0.
TdLambdaZero ==
    (Returned("td_lambda") /\ lambda_ = Zero /\ n_extra_steps < length) =>
        \A b \in 1..batch_size : \A t \in 0..(length - n_extra_steps - 1) :
            IF t < length - 1
              THEN Res[b][t + 1] =
                      RSub(RAdd(rewards[b][t + 1], RMul(gamma, values[b][t + 2])),
                           values[b][t + 1])
              ELSE Res[b][t + 1] = Zero

\* C7 as stated: the residual at every retained step, which needs values[b,t+1]
\* to exist at each of them.
TdLambdaZeroAsStated ==
    (Returned("td_lambda") /\ lambda_ = Zero /\ n_extra_steps < length) =>
        \A b \in 1..batch_size : \A t \in 0..(length - n_extra_steps - 1) :
            /\ t + 1 < length
            /\ Res[b][t + 1] =
                  RSub(RAdd(rewards[b][t + 1], RMul(gamma, values[b][t + 2])),
                       values[b][t + 1])

TdLambdaZeroWitness ==
    /\ Returned("td_lambda")
    /\ lambda_ = Zero
    /\ n_extra_steps = 0
    /\ length = 3

\* returns computed as td_lambda computes td_returns with lambda_ = 1
ReturnsComputedIdentically ==
    \A b \in 1..batch_size :
        /\ returns[b][length] = values[b][length]
        /\ \A t \in 1..(length - 1) :
              returns[b][t] = RAdd(rewards[b][t], RMul(gamma, returns[b][t + 1]))

\* C8: with lambda_ = 1 every column td_lambda has written but the last obeys
\* td_returns[b,t] = rewards[b,t] + gamma * td_returns[b,t+1], and when returns
\* were computed identically td_lambda returns what monte_carlo returns.
TdLambdaOne ==
    /\ (fn = "td_lambda" /\ lambda_ = One /\ pc \in {"tdl_loop", "done"}
          /\ outcome # "IndexError") =>
          \A j \in 2..Len(writes) : \A b \in 1..batch_size :
              Deref(mem, td_returns)[b][writes[j] + 1] =
                  RAdd(rewards[b][writes[j] + 1],
                       RMul(gamma, Deref(mem, td_returns)[b][writes[j] + 2]))
    /\ (Returned("td_lambda") /\ lambda_ = One /\ length >= 1
          /\ ReturnsComputedIdentically) =>
          Res = monte_carlo(rewards, returns, values, gamma, n_extra_steps)

TdLambdaOneWitness ==
    /\ Returned("td_lambda")
    /\ lambda_ = One
    /\ gamma = Half
    /\ length = 3
    /\ n_extra_steps = 1
    /\ ReturnsComputedIdentically

\* C9: no step of any call changes rewards, returns or values, the arrays the
\* call writes into are its own, and the returned array is none of the inputs.
InputsUntouched ==
    [][ /\ \A o \in InputIds : mem'[o] = mem[o]
        /\ advantages'.obj \notin InputIds
        /\ td_returns'.obj \notin InputIds
        /\ result'.obj \notin InputIds ]_vars

InputsUntouchedWitness ==
    /\ pc = "tdk_loop"
    /\ i = 2
    /\ advantages.obj = "new"
    /\ mem["new"] # Free

\* C10: td_lambda assigns column length-1 first and then length-2, ..., 0, each
\* once and in decreasing order; every column assigned so far holds its final
\* value; the loop ends after exactly length-1 iterations.
BackwardScan ==
    fn = "td_lambda" =>
        /\ \A j \in 1..Len(writes) : writes[j] = length - j
        /\ \A j \in 1..Len(writes) : \A b \in 1..batch_size :
              Deref(mem, td_returns)[b][writes[j] + 1] = TdRet(b, writes[j] + 1)
        /\ pc = "tdl_loop" =>
              /\ Len(writes) = i + 1
              /\ i <= length - 1
        /\ Returned("td_lambda") =>
              /\ i = length - 1
              /\ Len(writes) = length

BackwardScanWitness ==
    /\ Returned("td_lambda")
    /\ writes = <<2, 1, 0>>
    /\ lambda_ = Half

====
